---------------------------- MODULE Spec2Model ----------------------------
(***************************************************************************)
(* potatopage: FilterablePaginator (src/filterable_paginator.py) over an   *)
(* ObjectManager (src/object_managers/base.py, gcal_api.py) and the Django *)
(* cache.                                                                  *)
(*                                                                         *)
(* The source holds object_count raw items, named 1..object_count in       *)
(* source order.  accept[i] says whether filter_func keeps item i.  A      *)
(* cursor (page token) is the number of raw items that precede the place   *)
(* it resumes at.  Python's None is written None (-1): Python 2 orders     *)
(* None below every integer, and so does -1 below every count and token.   *)
(***************************************************************************)
EXTENDS Integers, Sequences, FiniteSets, TLC

\* ------------------------------------------------------------- bounds
MaxItems == 4
MaxPerPage == 2
MaxBatch == 2
MaxPage == 4
MaxFetchCount == 3
MaxCheckpoint == 4       \* largest index in a checkpoint list
MaxCheckpoints == 3      \* longest checkpoint list
MaxPagesPerBatch == 3    \* UnifiedPaginator: largest batch_size (in pages)
MaxRaceItems == 3        \* concurrent requests: largest source
MaxRacePage == 2         \* concurrent requests: largest page number

\* Python's None (see the header).
None == -1

VARIABLES
    object_count,            \* number of raw items of the source
    has_filter,              \* filter_func is not None
    accept,                  \* accept[i]: filter_func(item i)
    supports_cursors,        \* object_list.supports_cursors
    token_at_end,            \* the API still returns a token when nothing is left
    per_page,                \* Paginator.per_page
    batch_size,              \* FilterablePaginator._batch_size
    allow_empty_first_page,  \* Paginator.allow_empty_first_page
    cache,                   \* the cache entries of this query's cache_key
    call,                    \* locals of the running / last page() call
    pc,                      \* "idle", "loop", "after"
    outcome,                 \* what the last page() call gave its caller
    io,                      \* the argument of the last page() call and the
                             \* fetches and cache reads it has made so far
    fetched12,               \* 0, then 1 once page(1) has returned a page,
                             \* then 2 once page(2) has returned one after it
    held,                    \* a FilteredPage the caller has kept
    nearest,                 \* the last _find_nearest_obj_with_cursor call:
                             \* its argument and what it returned
    ucache,                  \* UnifiedPaginator: the cache entries of _query_key
    ucall,                   \* UnifiedPaginator: locals of the last page() call
    uoutcome,                \* UnifiedPaginator: what that call gave its caller
    procs,                   \* concurrent requests: per request, where its
                             \* page() call is and what it has read so far
    peak                     \* the largest KNOWN_OBJ_COUNT the cache has held

config == <<object_count, has_filter, accept, supports_cursors, token_at_end,
            per_page, batch_size, allow_empty_first_page>>
ghost == <<io, fetched12, held>>
race == <<procs, peak>>
aside == <<nearest, ucache, ucall, uoutcome, race>>
vars == <<config, cache, call, pc, outcome, ghost, aside>>

\* ------------------------------------------------------------- Python helpers
Min(a, b) == IF a < b THEN a ELSE b

\* seq[lo:hi] of Python (0-based, clipped to the sequence), 0 <= lo.
Slice(seq, lo, hi) ==
    LET h == Min(hi, Len(seq))
    IN  IF lo >= h THEN << >> ELSE [i \in 1..(h - lo) |-> seq[lo + i]]

\* The raw items at positions lo..hi-1 of the source (0-based, clipped).
Raw(lo, hi) ==
    LET h == Min(hi, object_count)
    IN  IF lo >= h THEN << >> ELSE [i \in 1..(h - lo) |-> lo + i]

\* Truth value of a cursor: a token is a non-empty string, None is false.
Truthy(cursor) == cursor # None

\* filter(self._filter_func, results), or results when there is no filter.
Accepts(item) == accept[item]
FilterResults(results) ==
    IF has_filter THEN SelectSeq(results, Accepts) ELSE results

\* ------------------------------------------------------------- object manager
\* One call of the backend API: the items after pageToken, at most maxResults
\* of them, and the token of the place after them (None when nothing is left,
\* unless the backend hands out a token at the end too).
ApiCall(pageToken, maxResults) ==
    LET from == IF pageToken = None THEN 0 ELSE pageToken
        upto == from + maxResults
    IN  [items |-> Raw(from, upto),
         nextPageToken |-> IF upto < object_count THEN upto
                           ELSE IF token_at_end THEN Min(upto, object_count)
                           ELSE None]

\* object_list[start:stop]: the call is made with maxResults = stop from the
\* manager's starting token, and the response is sliced with [start:stop].  A
\* manager without cursors keeps no end token (its next_cursor is None).
GetItem(starting_token, start, stop) ==
    LET response == ApiCall(starting_token, stop)
    IN  [results |-> Slice(response.items, start, stop),
         latest_end_token |-> IF supports_cursors THEN response.nextPageToken
                              ELSE None]

\* ------------------------------------------------------------- cache
EmptyCache ==
    [KNOWN_OBJ_COUNT |-> None,
     LAST_OBJ |-> None,
     CURSORED_OBJECTS |-> << >>,
     cursors |-> << >>]

InSeq(x, seq) == \E i \in 1..Len(seq) : seq[i] = x

\* _get_cursor that never finds a cursor.
GetCursorAlwaysMissing(c, zero_based_obj) == None

\* _get_cursor: the stored cursor, or None for CursorNotFound.
GetCursor(c, zero_based_obj) ==
    IF zero_based_obj \in DOMAIN c.cursors THEN c.cursors[zero_based_obj] ELSE None

\* _put_cursor
PutCursor(c, zero_based_obj, cursor) ==
    IF ~supports_cursors \/ cursor = None
    THEN c
    ELSE [c EXCEPT !.cursors =
            [k \in (DOMAIN c.cursors) \cup {zero_based_obj} |->
                IF k = zero_based_obj THEN cursor ELSE c.cursors[k]]]

\* _add_obj_with_cursor_to_cached_list that writes a list of the new index
\* alone.
AddObjWithCursorToCachedListAlone(c, obj_pos) ==
    [c EXCEPT !.CURSORED_OBJECTS = <<obj_pos>>]

\* _add_obj_with_cursor_to_cached_list
AddObjWithCursorToCachedList(c, obj_pos) ==
    IF InSeq(obj_pos, c.CURSORED_OBJECTS)
    THEN c
    ELSE [c EXCEPT !.CURSORED_OBJECTS = Append(@, obj_pos)]

\* _find_nearest_obj_with_cursor keeping only the checkpoints strictly below
\* the index.
FindNearestObjWithCursorBelow(c, current_obj_index) ==
    LET obj_lower_than_current ==
            {c.CURSORED_OBJECTS[i] : i \in
                {j \in 1..Len(c.CURSORED_OBJECTS) :
                    c.CURSORED_OBJECTS[j] < current_obj_index}}
    IN  IF obj_lower_than_current = {} THEN 0
        ELSE CHOOSE m \in obj_lower_than_current :
                \A x \in obj_lower_than_current : x <= m

\* _find_nearest_obj_with_cursor
FindNearestObjWithCursor(c, current_obj_index) ==
    LET obj_lower_than_current ==
            {c.CURSORED_OBJECTS[i] : i \in
                {j \in 1..Len(c.CURSORED_OBJECTS) :
                    c.CURSORED_OBJECTS[j] <= current_obj_index}}
    IN  IF obj_lower_than_current = {} THEN 0
        ELSE CHOOSE m \in obj_lower_than_current :
                \A x \in obj_lower_than_current : x <= m

\* _get_cursor_and_offset
GetCursorAndOffset(c, start_index) ==
    LET obj_with_cursor == FindNearestObjWithCursor(c, start_index)
    IN  [cursor |-> IF supports_cursors /\ obj_with_cursor > 0
                    THEN GetCursor(c, obj_with_cursor)
                    ELSE None,
         offset |-> start_index - obj_with_cursor,
         \* CursorNotFound was raised and caught
         not_found |-> /\ supports_cursors
                       /\ obj_with_cursor > 0
                       /\ GetCursor(c, obj_with_cursor) = None]


\* ------------------------------------------------------------- page()
\* page(), up to the while loop: the locals after _get_cursor_and_offset.  The
\* object manager is the one built for this request (both tokens None).
StartCall(c, number) ==
    LET page_start_index == (number - 1) * per_page
        co == GetCursorAndOffset(c, page_start_index)
    IN  [number |-> number,
         page_start_index |-> page_start_index,
         offset |-> co.offset,
         start_cursor |-> co.cursor,
         next_cursor |-> None,
         start_bottom |-> page_start_index - co.offset,
         filtered_objects |-> << >>,
         broke |-> FALSE,
         cursor_not_found |-> co.not_found,
         starting_token |-> None,
         latest_end_token |-> None]

\* WhileCond with the page-filling test forgotten.
WhileCondBatchOnly(k) ==
    Len(k.filtered_objects) < batch_size

\* The while condition of page().
WhileCond(k) ==
    \/ Len(k.filtered_objects) < batch_size
    \/ Len(k.filtered_objects) - k.offset < per_page

\* The next_page_start_index of an iteration, from the accumulated list.
NextPageStartIndex(k, filtered_objects) ==
    (k.page_start_index - k.offset) + Len(filtered_objects)

\* What an iteration stores after a full batch on a cursor-supporting source.
StoreCheckpoint(c, next_page_start_index, next_cursor) ==
    PutCursor(AddObjWithCursorToCachedList(c, next_page_start_index),
              next_page_start_index, next_cursor)

\* One iteration of the while loop: the cache and the locals after it.
Iterate(c, k) ==
    LET start_cursor == IF Truthy(k.next_cursor) THEN k.next_cursor
                        ELSE k.start_cursor
        top == k.start_bottom + batch_size
        got == IF Truthy(start_cursor)
               THEN GetItem(start_cursor, 0, batch_size)
               ELSE GetItem(k.starting_token, k.start_bottom, top)
        starting_token == IF Truthy(start_cursor) THEN start_cursor
                          ELSE k.starting_token
        filtered_objects == k.filtered_objects \o FilterResults(got.results)
        next_page_start_index == NextPageStartIndex(k, filtered_objects)
        short == Len(got.results) < batch_size
        k1 == [k EXCEPT !.start_cursor = start_cursor,
                        !.filtered_objects = filtered_objects,
                        !.starting_token = starting_token,
                        !.latest_end_token = got.latest_end_token]
    IN  IF short
        THEN [cache |-> c,
              call |-> [k1 EXCEPT !.next_cursor = None, !.broke = TRUE]]
        ELSE IF supports_cursors
        THEN [cache |-> StoreCheckpoint(c, next_page_start_index,
                                        got.latest_end_token),
              call |-> [k1 EXCEPT !.next_cursor = got.latest_end_token]]
        ELSE [cache |-> c,
              call |-> [k1 EXCEPT !.next_cursor = None, !.start_bottom = top]]

\* actual_results of page()
ActualResults(k) ==
    Slice(k.filtered_objects, k.offset, k.offset + per_page)

\* page() raises EmptyPage('That page contains no results')
RaisesEmptyPage(k) ==
    /\ ActualResults(k) = << >>
    /\ ~(k.number = 1 /\ allow_empty_first_page)

\* CountBookkeeping with the ">= known count" guard dropped.
CountBookkeepingUnguarded(c, k) ==
    LET batch_result_count == Len(k.filtered_objects)
        known_obj_count == (k.page_start_index - k.offset) + batch_result_count
    IN  IF batch_result_count < batch_size
        THEN [c EXCEPT !.LAST_OBJ = known_obj_count,
                       !.KNOWN_OBJ_COUNT = known_obj_count]
        ELSE IF Truthy(k.next_cursor)
        THEN [c EXCEPT !.KNOWN_OBJ_COUNT = known_obj_count + 1]
        ELSE [c EXCEPT !.KNOWN_OBJ_COUNT = known_obj_count]

\* CountBookkeeping guessing one more object after every full batch, cursor
\* or not.
CountBookkeepingAlwaysGuess(c, k) ==
    LET batch_result_count == Len(k.filtered_objects)
        known_obj_count == (k.page_start_index - k.offset) + batch_result_count
    IN  IF known_obj_count >= c.KNOWN_OBJ_COUNT
        THEN IF batch_result_count < batch_size
             THEN [c EXCEPT !.LAST_OBJ = known_obj_count,
                            !.KNOWN_OBJ_COUNT = known_obj_count]
             ELSE [c EXCEPT !.KNOWN_OBJ_COUNT = known_obj_count + 1]
        ELSE c

\* The count bookkeeping at the end of page().
CountBookkeeping(c, k) ==
    LET batch_result_count == Len(k.filtered_objects)
        known_obj_count == (k.page_start_index - k.offset) + batch_result_count
    IN  IF known_obj_count >= c.KNOWN_OBJ_COUNT
        THEN IF batch_result_count < batch_size
             THEN [c EXCEPT !.LAST_OBJ = known_obj_count,
                            !.KNOWN_OBJ_COUNT = known_obj_count]
             ELSE IF Truthy(k.next_cursor)
             THEN [c EXCEPT !.KNOWN_OBJ_COUNT = known_obj_count + 1]
             ELSE [c EXCEPT !.KNOWN_OBJ_COUNT = known_obj_count]
        ELSE c

NoOutcome == [kind |-> "none", number |-> 0, items |-> << >>]

\* page() after the loop: the cache and what the caller gets.
Finish(c, k) ==
    IF RaisesEmptyPage(k)
    THEN [cache |-> c,
          outcome |-> [kind |-> "EmptyPage", number |-> k.number, items |-> << >>]]
    ELSE [cache |-> CountBookkeeping(c, k),
          outcome |-> [kind |-> "page", number |-> k.number,
                       items |-> ActualResults(k)]]

\* The while loop run to its end from (c, k): the cache and locals where it is
\* left, or hangs = TRUE when an iteration changes nothing (the loop then
\* repeats that iteration for ever).
RECURSIVE RunLoop(_, _)
RunLoop(c, k) ==
    IF k.broke \/ ~WhileCond(k)
    THEN [cache |-> c, call |-> k, hangs |-> FALSE]
    ELSE LET r == Iterate(c, k)
         IN  IF r.cache = c /\ r.call = k
             THEN [cache |-> c, call |-> k, hangs |-> TRUE]
             ELSE RunLoop(r.cache, r.call)

\* page(number) run as a whole on cache c: what the caller gets.
PageOn(c, number) ==
    LET r == RunLoop(c, StartCall(c, number))
    IN  IF r.hangs
        THEN [kind |-> "hangs", number |-> number, items |-> << >>]
        ELSE Finish(r.cache, r.call).outcome

\* ------------------------------------------------------------- validate_number
\* The arguments page() is called with: an int, a string of digits (which
\* int() turns into val), or anything int() raises TypeError / ValueError on.
Inputs ==
    {[kind |-> "int", val |-> n] : n \in (0 - 1)..MaxPage}
    \cup {[kind |-> "digits", val |-> n] : n \in 0..1}
    \cup {[kind |-> "other", val |-> 0]}

\* int(number), for the arguments int() accepts.
IntOf(input) == input.val

\* validate_number that forgets the integer test: anything int() rejects
\* counts as a number below 1.
ValidationErrorNoTypeCheck(input) ==
    IF input.kind = "other" \/ IntOf(input) < 1 THEN "EmptyPage" ELSE "ok"

\* validate_number: the exception it raises, or "ok".
ValidationError(input) ==
    IF input.kind = "other" THEN "PageNotAnInteger"
    ELSE IF IntOf(input) < 1 THEN "EmptyPage"
    ELSE "ok"

\* ------------------------------------------------------------- fetch record
\* What a page() call has done so far, as its caller could observe on the
\* source and the cache: nothing yet.
NoIo(input, before) ==
    [request |-> input,
     before |-> before,
     cache_read |-> FALSE,
     fetches |-> 0,
     first_positional |-> FALSE,
     first_from |-> None,
     prev_from |-> None,
     last_from |-> None]

\* The raw position the next iteration's fetch starts at, and whether it is a
\* positional fetch (no starting cursor).
NextFetch(k) ==
    LET start_cursor == IF Truthy(k.next_cursor) THEN k.next_cursor
                        ELSE k.start_cursor
        token == IF k.starting_token = None THEN 0 ELSE k.starting_token
    IN  [positional |-> ~Truthy(start_cursor),
         from |-> IF Truthy(start_cursor) THEN start_cursor
                  ELSE token + k.start_bottom]

\* The record after the fetch of the iteration that starts from locals k.
RecordFetch(r, k) ==
    LET f == NextFetch(k)
    IN  [r EXCEPT !.fetches = Min(@ + 1, MaxFetchCount),
                  !.first_positional = IF r.fetches = 0 THEN f.positional ELSE @,
                  !.first_from = IF r.fetches = 0 THEN f.from ELSE @,
                  !.prev_from = r.last_from,
                  !.last_from = f.from]

\* fetched12 after a call with this outcome.
Fetched12After(was, o) ==
    IF o.kind = "page" /\ o.number = 1 /\ was = 0 THEN 1
    ELSE IF o.kind = "page" /\ o.number = 2 /\ was = 1 THEN 2
    ELSE was

NoPage == [number |-> 0, had_next |-> FALSE]

\* ------------------------------------------------------------- FilteredPage
\* _get_known_page_count rounding down instead of up.
KnownPageCountFloor(c) ==
    IF c.KNOWN_OBJ_COUNT = None THEN None
    ELSE c.KNOWN_OBJ_COUNT \div per_page

\* _get_known_page_count: int(ceil(known / float(per_page))), None when absent.
KnownPageCount(c) ==
    IF c.KNOWN_OBJ_COUNT = None THEN None
    ELSE (c.KNOWN_OBJ_COUNT + per_page - 1) \div per_page

\* FilteredPage.has_next of the page with this number, on cache c.
HasNext(c, number) == number < KnownPageCount(c)

\* ------------------------------------------------------------- idle values
\* No _find_nearest_obj_with_cursor call has been made.
NoNearest == [target |-> None, found |-> None]

\* UnifiedPaginator: nothing cached under _query_key.
EmptyUnifiedCache == [KNOWN_MAX |-> None, cursors |-> << >>]

\* UnifiedPaginator: no page() call has been made.
NoUnifiedCall ==
    [number |-> 0, page_with_cursor |-> 0, cursor |-> None, offset |-> 0]

\* The two requests that each call page() once, at the same time, on one
\* cache_key.
Procs == {1, 2}

\* A request that has not called page() yet.
IdleProc ==
    [pc |-> "idle",
     called |-> FALSE,
     number |-> 0,
     k |-> StartCall(EmptyCache, 1),
     list_read |-> << >>,
     count_read |-> None]

\* ------------------------------------------------------------- specification
Sources ==
    UNION {{[n |-> n, has_filter |-> FALSE, accept |-> [i \in 1..n |-> TRUE]]}
           \cup {[n |-> n, has_filter |-> TRUE, accept |-> a] :
                    a \in [1..n -> BOOLEAN]} : n \in 0..MaxItems}

Init ==
    /\ \E s \in Sources :
        /\ object_count = s.n
        /\ has_filter = s.has_filter
        /\ accept = s.accept
    /\ supports_cursors \in BOOLEAN
    /\ token_at_end \in BOOLEAN
    /\ supports_cursors = FALSE => token_at_end = FALSE
    /\ per_page \in 1..MaxPerPage
    /\ batch_size \in 1..MaxBatch
    /\ allow_empty_first_page \in BOOLEAN
    /\ cache = EmptyCache
    /\ call = StartCall(EmptyCache, 1)
    /\ pc = "idle"
    /\ outcome = NoOutcome
    /\ io = NoIo([kind |-> "int", val |-> 1], 0)
    /\ fetched12 = 0
    /\ held = NoPage
    /\ nearest = NoNearest
    /\ ucache = EmptyUnifiedCache
    /\ ucall = NoUnifiedCall
    /\ uoutcome = NoOutcome
    /\ procs = [p \in Procs |-> IdleProc]
    /\ peak = None

\* page(number) is called: validate_number passes, _get_cursor_and_offset
\* (which reads CURSORED_OBJECTS).
PageStart(input) ==
    /\ pc = "idle"
    /\ ValidationError(input) = "ok"
    /\ call' = StartCall(cache, IntOf(input))
    /\ pc' = "loop"
    /\ outcome' = NoOutcome
    /\ io' = [NoIo(input, fetched12) EXCEPT !.cache_read = TRUE]
    /\ UNCHANGED <<config, cache, fetched12, held, aside>>

\* page(number) is called and validate_number raises.
PageInvalid(input) ==
    /\ pc = "idle"
    /\ ValidationError(input) # "ok"
    /\ outcome' = [kind |-> ValidationError(input), number |-> 0,
                   items |-> << >>]
    /\ io' = NoIo(input, fetched12)
    /\ UNCHANGED <<config, cache, call, pc, fetched12, held, aside>>

\* One iteration of the while loop (the break included).
LoopIterate ==
    /\ pc = "loop"
    /\ WhileCond(call)
    /\ LET r == Iterate(cache, call)
       IN  /\ cache' = r.cache
           /\ call' = r.call
           /\ pc' = IF r.call.broke THEN "after" ELSE "loop"
    /\ io' = RecordFetch(io, call)
    /\ UNCHANGED <<config, outcome, fetched12, held, aside>>

\* The while condition is false: the loop is left.
LoopExit ==
    /\ pc = "loop"
    /\ ~WhileCond(call)
    /\ pc' = "after"
    /\ UNCHANGED <<config, cache, call, outcome, ghost, aside>>

\* The rest of page(): EmptyPage, or the bookkeeping and the FilteredPage.
PageFinish ==
    /\ pc = "after"
    /\ LET r == Finish(cache, call)
       IN  /\ cache' = r.cache
           /\ outcome' = r.outcome
           /\ fetched12' = Fetched12After(fetched12, r.outcome)
    /\ pc' = "idle"
    /\ UNCHANGED <<config, call, io, held, aside>>

Next ==
    \/ \E input \in Inputs : PageStart(input)
    \/ \E input \in Inputs : PageInvalid(input)
    \/ LoopIterate
    \/ LoopExit
    \/ PageFinish

Spec == Init /\ [][Next]_vars

\* ------------------------------------------------------------- UnifiedPaginator
\* The queryset is the source without filter; batch_size counts pages here.
\* _find_nearest_page_with_cursor that takes the page itself.
FindNearestPageWithCursorSame(current_page) == current_page

\* _find_nearest_page_with_cursor: step down to a multiple of _batch_size.
RECURSIVE FindNearestPageWithCursor(_)
FindNearestPageWithCursor(current_page) ==
    IF current_page % batch_size # 0
    THEN FindNearestPageWithCursor(current_page - 1)
    ELSE current_page

\* UnifiedPaginator._get_cursor: the stored cursor, None for CursorNotFound.
UnifiedGetCursor(c, zero_based_page) ==
    IF zero_based_page \in DOMAIN c.cursors THEN c.cursors[zero_based_page]
    ELSE None

\* UnifiedPaginator._put_cursor (after its assert).
UnifiedPutCursor(c, zero_based_page, cursor) ==
    [c EXCEPT !.cursors =
        [k \in (DOMAIN c.cursors) \cup {zero_based_page} |->
            IF k = zero_based_page THEN cursor ELSE c.cursors[k]]]

\* UnifiedPaginator._get_cursor_and_offset (_query_supports_cursors is True).
UnifiedGetCursorAndOffset(c, page) ==
    LET page_with_cursor == FindNearestPageWithCursor(page)
    IN  [page_with_cursor |-> page_with_cursor,
         cursor |-> IF page_with_cursor > 0
                    THEN UnifiedGetCursor(c, page_with_cursor)
                    ELSE None,
         offset |-> (page - page_with_cursor) * per_page]

\* The query page() builds and runs: where it starts, list(query), and what
\* djangoappengine's get_cursor(query) gives afterwards: the place after the
\* last result, or None when the query ran into the end and the backend gives
\* no cursor there.
RunQuery(number, cursor) ==
    LET bottom == IF Truthy(cursor) THEN cursor
                  ELSE per_page * FindNearestPageWithCursor(number - 1)
        top == bottom + per_page * batch_size
        results == Raw(bottom, top)
        end == Min(bottom, object_count) + Len(results)
    IN  [results |-> results,
         get_cursor |-> IF top <= object_count \/ token_at_end THEN end
                        ELSE None]

\* The KNOWN_MAX page() stores (lines 136-143).
KnownMax(page_with_cursor, results, offset) ==
    LET actual_results == Slice(results, offset, offset + per_page)
        actual_result_count == Len(actual_results)
    IN  IF actual_result_count < batch_size * per_page
        THEN page_with_cursor + (actual_result_count \div per_page) + 1
        ELSE page_with_cursor + batch_size + 1

\* UnifiedPaginator.page(number) on cache c, number validated.
UnifiedPageOn(c, number) ==
    LET co == UnifiedGetCursorAndOffset(c, number - 1)
        q == RunQuery(number, co.cursor)
        k == [number |-> number, page_with_cursor |-> co.page_with_cursor,
              cursor |-> co.cursor, offset |-> co.offset]
        nearest_page_with_cursor == FindNearestPageWithCursor(number - 1)
        stored == UnifiedPutCursor(c, nearest_page_with_cursor + batch_size,
                                   q.get_cursor)
    IN  IF /\ Slice(q.results, co.offset, Len(q.results)) = << >>
           /\ ~(number = 1 /\ allow_empty_first_page)
        THEN [cache |-> c, call |-> k,
              outcome |-> [kind |-> "EmptyPage", number |-> number,
                           items |-> << >>]]
        ELSE IF ~Truthy(q.get_cursor)
        THEN [cache |-> c, call |-> k,
              outcome |-> [kind |-> "AssertionError", number |-> number,
                           items |-> << >>]]
        ELSE [cache |-> [stored EXCEPT !.KNOWN_MAX =
                            KnownMax(nearest_page_with_cursor, q.results,
                                     co.offset)],
              call |-> k,
              outcome |-> [kind |-> "page", number |-> number,
                           items |-> Slice(q.results, co.offset,
                                           co.offset + per_page)]]

\* UnifiedPage.has_next
UnifiedHasNext(c, number) == number < c.KNOWN_MAX

\* UnifiedPage.available_pages (an absent KNOWN_MAX gives no page here).
AvailablePages(c, number, limit_to_batch_size) ==
    LET m == IF limit_to_batch_size THEN number - batch_size ELSE 1
        min_page == IF m < 1 THEN 1 ELSE m
        max_page == Min(number + batch_size, c.KNOWN_MAX)
    IN  IF max_page < min_page THEN << >>
        ELSE [i \in 1..(max_page + 1 - min_page) |-> min_page + i - 1]

InitUnified ==
    /\ object_count \in 0..MaxItems
    /\ has_filter = FALSE
    /\ accept = [i \in 1..object_count |-> TRUE]
    /\ supports_cursors = TRUE
    /\ token_at_end \in BOOLEAN
    /\ per_page \in 1..MaxPerPage
    /\ batch_size \in 1..MaxPagesPerBatch
    /\ allow_empty_first_page \in BOOLEAN
    /\ cache = EmptyCache
    /\ call = StartCall(EmptyCache, 1)
    /\ pc = "idle"
    /\ outcome = NoOutcome
    /\ io = NoIo([kind |-> "int", val |-> 1], 0)
    /\ fetched12 = 0
    /\ held = NoPage
    /\ nearest = NoNearest
    /\ ucache = EmptyUnifiedCache
    /\ ucall = NoUnifiedCall
    /\ uoutcome = NoOutcome
    /\ procs = [p \in Procs |-> IdleProc]
    /\ peak = None

\* UnifiedPaginator.page(number), number valid.
UnifiedPageCall(input) ==
    /\ ValidationError(input) = "ok"
    /\ LET r == UnifiedPageOn(ucache, IntOf(input))
       IN  /\ ucache' = r.cache
           /\ ucall' = r.call
           /\ uoutcome' = r.outcome
    /\ UNCHANGED <<config, cache, call, pc, outcome, ghost, nearest, race>>

\* UnifiedPaginator.page(number), validate_number raises.
UnifiedPageInvalid(input) ==
    /\ ValidationError(input) # "ok"
    /\ uoutcome' = [kind |-> ValidationError(input), number |-> 0,
                    items |-> << >>]
    /\ UNCHANGED <<config, cache, call, pc, outcome, ghost, nearest, ucache,
                   ucall, race>>

NextUnified ==
    \/ \E input \in Inputs : UnifiedPageCall(input)
    \/ \E input \in Inputs : UnifiedPageInvalid(input)

\* page() calls on a UnifiedPaginator.
SpecUnified == InitUnified /\ [][NextUnified]_vars

\* ------------------------------------------- _find_nearest_obj_with_cursor
\* The lists CURSORED_OBJECTS can hold: indexes in any order, none twice
\* (_add_obj_with_cursor_to_cached_list appends an index that is not in the
\* list); the empty list also stands for the absent key, which
\* _get_objs_with_cursors reads as [].
CheckpointLists ==
    {s \in UNION {[1..n -> 0..MaxCheckpoint] : n \in 0..MaxCheckpoints} :
        \A i, j \in 1..Len(s) : i # j => s[i] # s[j]}

InitNearest ==
    /\ object_count = 0
    /\ has_filter = FALSE
    /\ accept = << >>
    /\ supports_cursors \in BOOLEAN
    /\ token_at_end = FALSE
    /\ per_page = 1
    /\ batch_size = 1
    /\ allow_empty_first_page = TRUE
    /\ \E s \in CheckpointLists : cache = [EmptyCache EXCEPT !.CURSORED_OBJECTS = s]
    /\ call = StartCall(EmptyCache, 1)
    /\ pc = "idle"
    /\ outcome = NoOutcome
    /\ io = NoIo([kind |-> "int", val |-> 1], 0)
    /\ fetched12 = 0
    /\ held = NoPage
    /\ nearest = NoNearest
    /\ ucache = EmptyUnifiedCache
    /\ ucall = NoUnifiedCall
    /\ uoutcome = NoOutcome
    /\ procs = [p \in Procs |-> IdleProc]
    /\ peak = None

\* _find_nearest_obj_with_cursor(t) is called.
FindNearest(t) ==
    /\ nearest' = [target |-> t, found |-> FindNearestObjWithCursor(cache, t)]
    /\ UNCHANGED <<config, cache, call, pc, outcome, ghost, ucache, ucall,
                   uoutcome, race>>

NextNearest == \E t \in 0..(MaxCheckpoint + 1) : FindNearest(t)

\* _find_nearest_obj_with_cursor on every checkpoint list and target.
SpecNearest == InitNearest /\ [][NextNearest]_vars

\* The caller keeps the FilteredPage the last call returned (the page holds
\* its number and the paginator, nothing of the cache).  had_next is what its
\* has_next() answers now.
KeepPage ==
    /\ pc = "idle"
    /\ outcome.kind = "page"
    /\ held' = [number |-> outcome.number,
                had_next |-> HasNext(cache, outcome.number)]
    /\ UNCHANGED <<config, cache, call, pc, outcome, io, fetched12, aside>>

NextKeep ==
    \/ Next
    \/ KeepPage

\* page() calls, with a caller that keeps pages and asks them later.
SpecKeep == Init /\ [][NextKeep]_vars

\* ------------------------------------------------------------- concurrent calls
\* page() calls of several requests on the same cache_key, one cache.get or
\* cache.set per step.  Each request has its own paginator and object manager;
\* only the cache is shared.

\* known_obj_count of page() (line 224).
KnownObjCount(k) == (k.page_start_index - k.offset) + Len(k.filtered_objects)

\* The guard of line 227 that lets every count through.
GuardAlwaysPasses(k, cached) == TRUE

\* The guard of line 227 against the value read from the cache.
GuardPasses(k, cached) == KnownObjCount(k) >= cached

\* The value _put_known_obj_count is called with (lines 228-235).
CountToWrite(k) ==
    IF Len(k.filtered_objects) >= batch_size /\ Truthy(k.next_cursor)
    THEN KnownObjCount(k) + 1
    ELSE KnownObjCount(k)

\* The cache as a request sees it that read CURSORED_OBJECTS earlier.
WithListRead(c, list_read) == [c EXCEPT !.CURSORED_OBJECTS = list_read]

InitRace ==
    /\ \E s \in {x \in Sources : x.n <= MaxRaceItems} :
        /\ object_count = s.n
        /\ has_filter = s.has_filter
        /\ accept = s.accept
    /\ supports_cursors \in BOOLEAN
    /\ token_at_end \in BOOLEAN
    /\ supports_cursors = FALSE => token_at_end = FALSE
    /\ per_page \in 1..MaxPerPage
    /\ batch_size \in 1..MaxBatch
    /\ allow_empty_first_page \in BOOLEAN
    /\ cache = EmptyCache
    /\ call = StartCall(EmptyCache, 1)
    /\ pc = "idle"
    /\ outcome = NoOutcome
    /\ io = NoIo([kind |-> "int", val |-> 1], 0)
    /\ fetched12 = 0
    /\ held = NoPage
    /\ nearest = NoNearest
    /\ ucache = EmptyUnifiedCache
    /\ ucall = NoUnifiedCall
    /\ uoutcome = NoOutcome
    /\ procs = [p \in Procs |-> IdleProc]
    /\ peak = None

\* Everything a step of one request leaves alone besides cache and procs.
RaceFrame == UNCHANGED <<config, call, pc, outcome, ghost, nearest, ucache,
                         ucall, uoutcome>>

\* page(number): _find_nearest_obj_with_cursor reads CURSORED_OBJECTS.
RaceFind(p, number) ==
    /\ procs[p].pc = "idle"
    /\ ~procs[p].called
    /\ procs' = [procs EXCEPT ![p] = [@ EXCEPT !.pc = "get_cursor",
                                               !.called = TRUE,
                                               !.number = number,
                                               !.list_read = cache.CURSORED_OBJECTS]]
    /\ UNCHANGED <<cache, peak>>
    /\ RaceFrame

\* The rest of _get_cursor_and_offset: _get_cursor reads the cursor of the
\* checkpoint found; the locals before the loop.
RaceGetCursor(p) ==
    /\ procs[p].pc = "get_cursor"
    /\ procs' = [procs EXCEPT ![p] = [@ EXCEPT
            !.pc = "loop",
            !.k = StartCall(WithListRead(cache, procs[p].list_read),
                            procs[p].number)]]
    /\ UNCHANGED <<cache, peak>>
    /\ RaceFrame

\* One iteration up to the break or the checkpoint: fetch and filter.
RaceFetch(p) ==
    /\ procs[p].pc = "loop"
    /\ WhileCond(procs[p].k)
    /\ LET r == Iterate(cache, procs[p].k).call
       IN  procs' = [procs EXCEPT ![p] = [@ EXCEPT
               !.k = r,
               !.pc = IF r.broke THEN "after"
                      ELSE IF supports_cursors THEN "add_read"
                      ELSE "loop"]]
    /\ UNCHANGED <<cache, peak>>
    /\ RaceFrame

\* _add_obj_with_cursor_to_cached_list: _get_objs_with_cursors.
RaceAddRead(p) ==
    /\ procs[p].pc = "add_read"
    /\ procs' = [procs EXCEPT ![p] = [@ EXCEPT
            !.pc = "add_write",
            !.list_read = cache.CURSORED_OBJECTS]]
    /\ UNCHANGED <<cache, peak>>
    /\ RaceFrame

\* _add_obj_with_cursor_to_cached_list: append to the list read and
\* _put_objs_with_cursors.
RaceAddWrite(p) ==
    /\ procs[p].pc = "add_write"
    /\ cache' = [cache EXCEPT !.CURSORED_OBJECTS =
            AddObjWithCursorToCachedList(
                WithListRead(cache, procs[p].list_read),
                KnownObjCount(procs[p].k)).CURSORED_OBJECTS]
    /\ procs' = [procs EXCEPT ![p] = [@ EXCEPT !.pc = "put_cursor"]]
    /\ UNCHANGED peak
    /\ RaceFrame

\* _put_cursor(next_page_start_index, next_cursor), end of the iteration.
RacePutCursor(p) ==
    /\ procs[p].pc = "put_cursor"
    /\ cache' = PutCursor(cache, KnownObjCount(procs[p].k),
                          procs[p].k.next_cursor)
    /\ procs' = [procs EXCEPT ![p] = [@ EXCEPT !.pc = "loop"]]
    /\ UNCHANGED peak
    /\ RaceFrame

\* The while condition is false: the loop is left.
RaceLoopExit(p) ==
    /\ procs[p].pc = "loop"
    /\ ~WhileCond(procs[p].k)
    /\ procs' = [procs EXCEPT ![p] = [@ EXCEPT !.pc = "after"]]
    /\ UNCHANGED <<cache, peak>>
    /\ RaceFrame

\* page() raises EmptyPage.
RaceEmptyPage(p) ==
    /\ procs[p].pc = "after"
    /\ RaisesEmptyPage(procs[p].k)
    /\ procs' = [procs EXCEPT ![p] = [@ EXCEPT !.pc = "idle"]]
    /\ UNCHANGED <<cache, peak>>
    /\ RaceFrame

\* The guard reads KNOWN_OBJ_COUNT; page() returns when it fails.
RaceGuardRead(p) ==
    /\ procs[p].pc = "after"
    /\ ~RaisesEmptyPage(procs[p].k)
    /\ procs' = [procs EXCEPT ![p] = [@ EXCEPT
            !.count_read = cache.KNOWN_OBJ_COUNT,
            !.pc = IF ~GuardPasses(procs[p].k, cache.KNOWN_OBJ_COUNT)
                   THEN "idle"
                   ELSE IF Len(procs[p].k.filtered_objects) < batch_size
                   THEN "final_write"
                   ELSE "count_write"]]
    /\ UNCHANGED <<cache, peak>>
    /\ RaceFrame

\* _put_final_obj(known_obj_count)
RaceFinalWrite(p) ==
    /\ procs[p].pc = "final_write"
    /\ cache' = [cache EXCEPT !.LAST_OBJ = KnownObjCount(procs[p].k)]
    /\ procs' = [procs EXCEPT ![p] = [@ EXCEPT !.pc = "count_write"]]
    /\ UNCHANGED peak
    /\ RaceFrame

\* _put_known_obj_count(known_obj_count); page() returns.
RaceCountWrite(p) ==
    /\ procs[p].pc = "count_write"
    /\ cache' = [cache EXCEPT !.KNOWN_OBJ_COUNT = CountToWrite(procs[p].k)]
    /\ peak' = IF CountToWrite(procs[p].k) > peak
               THEN CountToWrite(procs[p].k) ELSE peak
    /\ procs' = [procs EXCEPT ![p] = [@ EXCEPT !.pc = "idle"]]
    /\ RaceFrame

NextRace ==
    \E p \in Procs :
        \/ \E number \in 1..MaxRacePage : RaceFind(p, number)
        \/ RaceGetCursor(p)
        \/ RaceFetch(p)
        \/ RaceAddRead(p)
        \/ RaceAddWrite(p)
        \/ RacePutCursor(p)
        \/ RaceLoopExit(p)
        \/ RaceEmptyPage(p)
        \/ RaceGuardRead(p)
        \/ RaceFinalWrite(p)
        \/ RaceCountWrite(p)

\* Concurrent page() calls on one cache_key.
SpecRace == InitRace /\ [][NextRace]_vars

\* ------------------------------------------------------------- properties
\* The items of the source that pass the filter, in source order.
F == FilterResults(Raw(0, object_count))

\* F[(n-1)*per_page : n*per_page]
ExpectedSlice(n) == Slice(F, (n - 1) * per_page, n * per_page)

\* A page() call has ended and handed its result to the caller.
Returned == pc = "idle" /\ outcome.kind # "none" /\ outcome.number >= 1

\* The ended call gave the slice of F, or EmptyPage exactly when it is empty
\* (and the page is not an allowed empty first page).
CorrectOutcome ==
    LET e == ExpectedSlice(outcome.number)
        fails == e = << >> /\ ~(outcome.number = 1 /\ allow_empty_first_page)
    IN  /\ (outcome.kind = "EmptyPage") <=> fails
        /\ (outcome.kind = "page") <=> ~fails
        /\ outcome.kind = "page" => outcome.items = e

\* The count the ended call observed: checkpoint + accumulated filtered items.
ObservedCount == NextPageStartIndex(call, call.filtered_objects)

\* The number of filter-passing items before raw position p.
FilteredBefore(p) == Len(FilterResults(Raw(0, p)))

\* C1: with a source without cursors, after any earlier calls, page(n) returns
\* exactly F[(n-1)*per_page : n*per_page] (a short last page too) and raises
\* EmptyPage exactly when that slice is empty and the page is not an allowed
\* empty first page.
C1_PositionalPageIsSlice ==
    (~supports_cursors /\ Returned) => CorrectOutcome

\* C1 witness: a short, filtered second page came back after an earlier call.
C1_Witness ==
    /\ ~supports_cursors /\ has_filter /\ Returned
    /\ outcome.kind = "page" /\ outcome.number = 2
    /\ per_page = 2 /\ Len(outcome.items) = 1
    /\ Len(F) < object_count
    /\ cache.KNOWN_OBJ_COUNT # None

\* C2: with a cursor-supporting source, from an empty cache, every Page that
\* is returned holds exactly F[(n-1)*per_page : n*per_page].
C2_CursorPageIsSlice ==
    (supports_cursors /\ Returned /\ outcome.kind = "page")
        => outcome.items = ExpectedSlice(outcome.number)

\* C3: page(N) on a warm cache gives what page(N) on an empty cache gives: the
\* same items, or EmptyPage in both.
C3_ColdWarmSame ==
    (supports_cursors /\ Returned)
        => outcome = PageOn(EmptyCache, outcome.number)

\* C4: over any sequence of page() calls the cached KNOWN_OBJ_COUNT never
\* decreases (an absent value counts as below every count).
C4_KnownCountMonotonic ==
    [][cache'.KNOWN_OBJ_COUNT >= cache.KNOWN_OBJ_COUNT]_vars

\* C4 witness: a call that observed less than the cached count (and guessed
\* nothing) has returned its page, the count left as an earlier call set it.
C4_Witness ==
    /\ Returned /\ outcome.kind = "page"
    /\ ~Truthy(call.next_cursor)
    /\ ObservedCount < cache.KNOWN_OBJ_COUNT

C6_ShortFetchSetsFinal ==
    (Returned /\ outcome.kind = "page" /\ call.broke) => cache.LAST_OBJ # None

\* C7: once LAST_OBJ is set, no later page() call changes it.
C7_FinalNeverChanges ==
    [][cache.LAST_OBJ # None => cache'.LAST_OBJ = cache.LAST_OBJ]_vars

\* C8: every cursor stored under checkpoint C resumes the source where exactly
\* C filter-passing items precede.
C8_CursorValid ==
    \A c \in DOMAIN cache.cursors : FilteredBefore(cache.cursors[c]) = c

\* C9: every index in CURSORED_OBJECTS has a cursor stored under it.
C9_CheckpointHasCursor ==
    \A i \in 1..Len(cache.CURSORED_OBJECTS) :
        cache.CURSORED_OBJECTS[i] \in DOMAIN cache.cursors

\* C10: when the nearest checkpoint C > 0 has no cursor in the cache, page(n)
\* falls back to a positional fetch from C and still gives the right slice of
\* F (or EmptyPage when it is empty), whatever the filter.
C10_FallbackCorrect ==
    (Returned /\ call.cursor_not_found) => CorrectOutcome

\* C11: cursor-supporting source, no filter, batch_size = per_page.  Once
\* page(1) and then page(2) have returned their pages, a cursor is cached under
\* checkpoint per_page; and a further page(2) call starts from that cursor (the
\* raw position per_page) and makes exactly one fetch, not a positional one.
C11_CachedCursorReused ==
    (supports_cursors /\ ~has_filter /\ batch_size = per_page)
        => /\ fetched12 = 2 => per_page \in DOMAIN cache.cursors
           /\ (pc = "idle" /\ outcome.kind # "none" /\ outcome.number = 2
                /\ io.before = 2)
                 => /\ io.fetches = 1
                    /\ ~io.first_positional
                    /\ io.first_from = per_page

\* C11 witness: after page(1) and page(2), a further page(2) call has returned
\* its page with one fetch.
C11_Witness ==
    /\ supports_cursors /\ ~has_filter /\ batch_size = per_page
    /\ pc = "idle" /\ outcome.kind = "page" /\ outcome.number = 2
    /\ io.before = 2 /\ io.fetches = 1

\* C12: has_next() of a kept FilteredPage p = page(n) is answered from the
\* cache as it is now: at any later time it is true exactly when
\* n * per_page < KNOWN_OBJ_COUNT, i.e. n < ceil(KNOWN_OBJ_COUNT / per_page).
C12_HasNextReadsThrough ==
    held.number > 0
        => (HasNext(cache, held.number)
                <=> held.number * per_page < cache.KNOWN_OBJ_COUNT)

\* C12 witness: a kept page whose has_next() was false when it was returned
\* answers true after a later call raised the known count.
C12_Witness ==
    /\ held.number > 0
    /\ ~held.had_next
    /\ HasNext(cache, held.number)

\* C13: page(number) with a number int() cannot convert raises
\* PageNotAnInteger, with one that converts to an integer below 1 raises
\* EmptyPage; in both cases the call ends there: nothing is fetched from the
\* source and the cache is neither read nor written.
C13_InvalidNumberRejected ==
    [][(pc = "idle" /\ (io'.request.kind = "other" \/ io'.request.val < 1))
          => /\ outcome'.kind = IF io'.request.kind = "other"
                                THEN "PageNotAnInteger" ELSE "EmptyPage"
             /\ pc' = "idle"
             /\ cache' = cache
             /\ io'.fetches = 0
             /\ ~io'.cache_read]_vars

\* C13 witness: a call with a non-integer number was rejected while the cache
\* held the count and a checkpoint of earlier calls.
C13_Witness ==
    /\ pc = "idle"
    /\ outcome.kind = "PageNotAnInteger"
    /\ io.request.kind = "other"
    /\ cache.KNOWN_OBJ_COUNT # None
    /\ cache.CURSORED_OBJECTS # << >>

\* C14: when no item of the source passes the filter, page(1) returns a page
\* with an empty item list if allow_empty_first_page is true and fails with
\* EmptyPage if it is false; a page(n) with n > 1 whose slice is empty never
\* returns a page.
C14_EmptyFirstPage ==
    /\ (pc = "loop" /\ call.number = 1 /\ Len(F) = 0)
          => LET r == RunLoop(cache, call)
                 o == Finish(r.cache, r.call).outcome
             IN  /\ ~r.hangs
                 /\ o.items = << >>
                 /\ o.kind = IF allow_empty_first_page
                             THEN "page" ELSE "EmptyPage"
    /\ (Returned /\ outcome.number > 1 /\ outcome.kind = "page")
          => outcome.items # << >>

\* C15: for every checkpoint list S and target t,
\* _find_nearest_obj_with_cursor(t) returns the largest checkpoint of S that
\* is <= t, and 0 when S has none (S empty or absent included): no checkpoint
\* <= t above the returned one exists.
C15_NearestIsMaxBelow ==
    nearest.target # None
        => LET S == {cache.CURSORED_OBJECTS[i] :
                        i \in 1..Len(cache.CURSORED_OBJECTS)}
               below == {c \in S : c <= nearest.target}
           IN  /\ below = {} => nearest.found = 0
               /\ below # {} => nearest.found \in below
               /\ \A c \in below : c <= nearest.found

\* C15 witness: the list is not sorted, holds checkpoints on both sides of the
\* target and the target itself, and the call returned the target.
C15_Witness ==
    /\ nearest.target # None
    /\ nearest.found = nearest.target
    /\ Len(cache.CURSORED_OBJECTS) = 3
    /\ cache.CURSORED_OBJECTS[1] > nearest.target
    /\ cache.CURSORED_OBJECTS[3] < nearest.target
    /\ cache.CURSORED_OBJECTS[3] > 0

\* C19: the while loop of page() ends after finitely many fetches, whatever
\* the source, the filter, per_page and batch_size are, and every fetch after
\* the first takes the raw range that follows the range of the fetch before.
C19_LoopTerminates ==
    /\ pc = "loop" => ~RunLoop(cache, call).hangs
    /\ (pc # "idle" /\ io.fetches >= 2)
          => io.last_from = io.prev_from + batch_size

\* C20: right after page(n) returned a page p, p.has_next() is true exactly
\* when the filtered sequence has more than n * per_page items (page(n + 1)
\* would not be empty), for sources with and without cursors.
C20_HasNextAgreesWithSource ==
    (Returned /\ outcome.kind = "page")
        => (HasNext(cache, outcome.number)
                <=> Len(F) > outcome.number * per_page)

\* C16: UnifiedPaginator: a page() call never lowers the cached KNOWN_MAX; a
\* low page requested after a high one leaves it as it was.
C16_KnownMaxNeverDecreases ==
    [][ucache.KNOWN_MAX # None
          => ucache'.KNOWN_MAX >= ucache.KNOWN_MAX]_vars

\* C17: UnifiedPaginator: after page(n) returned a page, available_pages() of
\* that page contains n and KNOWN_MAX is at least n, for every batch_size.
C17_PageIsAvailable ==
    uoutcome.kind = "page"
        => /\ InSeq(uoutcome.number,
                    AvailablePages(ucache, uoutcome.number, TRUE))
           /\ ucache.KNOWN_MAX >= uoutcome.number

\* C18: UnifiedPaginator: every zero-based page index a cursor is stored under
\* is a positive multiple of batch_size, and the index page(n) looks a cursor
\* up at is the largest multiple of batch_size that is <= n - 1.
C18_CheckpointsAreBatchMultiples ==
    /\ \A p \in DOMAIN ucache.cursors : p > 0 /\ p % batch_size = 0
    /\ ucall.number >= 1
          => /\ ucall.page_with_cursor % batch_size = 0
             /\ ucall.page_with_cursor <= ucall.number - 1
             /\ ucall.number - 1 < ucall.page_with_cursor + batch_size

\* C18 witness: with batch_size 2, page(4) found the cursor stored under
\* index 2, one below its own index 3.
C18_Witness ==
    /\ batch_size = 2
    /\ uoutcome.kind = "page"
    /\ ucall.number = 4
    /\ ucall.page_with_cursor = 2
    /\ Truthy(ucall.cursor)
    /\ DOMAIN ucache.cursors = {2, 4}

\* Both concurrent page() calls have ended.
BothEnded == \A p \in Procs : procs[p].called /\ procs[p].pc = "idle"

\* C21: _add_obj_with_cursor_to_cached_list reads the checkpoint list, appends
\* and writes it back without a lock.  A checkpoint leaves the cached list
\* only by the write-back of a call whose read of the list is out of date (the
\* other call wrote in between); the witness shows two interleaved calls
\* ending with a checkpoint missing whose cursor is still stored.
C21_CheckpointLostByStaleWriteBack ==
    [][(\E i \in 1..Len(cache.CURSORED_OBJECTS) :
            ~InSeq(cache.CURSORED_OBJECTS[i], cache'.CURSORED_OBJECTS))
          => \E p \in Procs :
                /\ procs[p].pc = "add_write"
                /\ procs'[p].pc = "put_cursor"
                /\ procs[p].list_read # cache.CURSORED_OBJECTS]_vars

\* C21 witness: both calls have ended, a cursor is stored under an index that
\* is not in CURSORED_OBJECTS.
C21_Witness ==
    /\ BothEnded
    /\ \E x \in DOMAIN cache.cursors : ~InSeq(x, cache.CURSORED_OBJECTS)

\* C22: the guard on KNOWN_OBJ_COUNT is a read followed by a write.  The
\* cached count goes down only by the write of a call whose guard read is out
\* of date (the other call wrote in between), never when calls run one after
\* another; the witness shows two interleaved calls ending with a count below
\* one the cache held earlier.
C22_CountLoweredByStaleGuard ==
    [][cache'.KNOWN_OBJ_COUNT < cache.KNOWN_OBJ_COUNT
          => \E p \in Procs :
                /\ procs[p].pc = "count_write"
                /\ procs'[p].pc = "idle"
                /\ procs[p].count_read # cache.KNOWN_OBJ_COUNT]_vars

\* C22 witness: both calls have ended and KNOWN_OBJ_COUNT is below a value it
\* held earlier.
C22_Witness ==
    /\ BothEnded
    /\ cache.KNOWN_OBJ_COUNT # None
    /\ cache.KNOWN_OBJ_COUNT < peak

=============================================================================
